---- MODULE Spec2Model ----
(***************************************************************************)
(* Sparse checkout of libgit2 (src/src/sparse.c): the pattern file         *)
(* .git/info/sparse-checkout, the configuration flag core.sparseCheckout,  *)
(* the public operations init / set / add / disable / list / check_path,   *)
(* the rule parser and the lookup engine.                                  *)
(*                                                                         *)
(* Text (file contents, patterns, paths) is a sequence of one-character    *)
(* strings, so that joining, splitting, parsing and matching are computed  *)
(* character by character as the C code does.                              *)
(***************************************************************************)
EXTENDS Integers, Sequences, FiniteSets, TLC

VARIABLES
    cfg,         \* core.sparseCheckout in the repository configuration
    fileExists,  \* whether .git/info/sparse-checkout exists
    file,        \* its contents (<<>> while it does not exist)
    last,        \* the public call that produced this state, with its inputs,
                 \* its results and the persistent state it started from
    walk,        \* one git_sparse__lookup in progress: its cursor and result
    parse,       \* parse_sparse_file running in several threads
    writers      \* two calls of add / set running concurrently

vars == <<cfg, fileExists, file, last, walk, parse, writers>>

(***************************************************************************)
(* Bounds of the model.                                                    *)
(***************************************************************************)
MaxPatterns == 2   \* patterns handed to one set() / add() call
MaxLines == 2      \* add() is explored while the file stays within this many patterns
MaxThreads == 2    \* threads running parse_sparse_file on one RuleSet

(***************************************************************************)
(* Characters and texts.                                                   *)
(***************************************************************************)
LF == "\n"
CR == "\r"

\* the two default patterns of git_sparse_checkout_init
DefaultPattern1 == <<"/", "*">>
DefaultPattern2 == <<"!", "/", "*", "/">>

StarTxt == <<"*", ".", "t", "x", "t">>
NotKeepTxt == <<"!", "k", "e", "e", "p", ".", "t", "x", "t">>

\* strings a caller may pass that are not patterns: the empty string, and
\* strings holding a line feed
EmptyString == <<>>
LeadingLF == <<LF, "/", "*">>
EmbeddedLF == <<"*", ".", "t", "x", "t", LF, "/", "*">>

\* the patterns callers pass
PatternPool == {DefaultPattern1, NotKeepTxt}

\* argument vectors holding a string that is not a pattern
MalformedArgs ==
    {<<EmptyString>>, <<DefaultPattern1, EmptyString>>,
     <<EmptyString, NotKeepTxt>>, <<LeadingLF>>, <<NotKeepTxt, LeadingLF>>,
     <<EmbeddedLF>>}

\* sequences over S of length at most n
RECURSIVE SeqsUpTo(_, _)
SeqsUpTo(S, n) ==
    IF n = 0 THEN {<<>>}
    ELSE LET shorter == SeqsUpTo(S, n - 1)
         IN  shorter \cup {Append(q, x) : q \in {r \in shorter : Len(r) = n - 1}, x \in S}

PatternArgs == SeqsUpTo(PatternPool, MaxPatterns) \cup MalformedArgs

\* a pattern in the sense of the pattern file: non-empty, no line terminator
IsPattern(p) == Len(p) > 0 /\ \A i \in 1..Len(p) : p[i] # LF /\ p[i] # CR
AllPatterns(P) == \A i \in 1..Len(P) : IsPattern(P[i])

\* contents the pattern file of a repository may already have when the
\* library first touches it (written by git or by hand)
CrLfFile == DefaultPattern1 \o <<CR, LF>> \o DefaultPattern2 \o <<CR, LF>>
BlankLineFile == StarTxt \o <<LF, LF>> \o NotKeepTxt \o <<LF>>
InitialFiles == {<<>>, CrLfFile, BlankLineFile}

(***************************************************************************)
(* Error codes.                                                            *)
(***************************************************************************)
GIT_OK == 0
GIT_ERROR == -1
GIT_ENOTFOUND == -3

\* the external call that fails during one public call, if any
Faults == {"none", "cfgset", "creat", "truncate", "write", "read"}

(***************************************************************************)
(* Persistent state as a record, so that the C functions can be written    *)
(* as operators from state to state.                                       *)
(***************************************************************************)
Store(c, e, f) == [cfg |-> c, exists |-> e, file |-> f]
Current == Store(cfg, fileExists, file)

\* git_config_get_bool(&is_enabled, cfg, "core.sparseCheckout")
git_config_get_bool(st) ==
    [value |-> (st.cfg = "true"),
     err |-> IF st.cfg = "absent" THEN GIT_ENOTFOUND ELSE GIT_OK]

\* git_config_set_bool(cfg, "core.sparseCheckout", b)
git_config_set_bool(st, b, fault) ==
    IF fault = "cfgset"
    THEN [st |-> st, err |-> GIT_ERROR]
    ELSE [st |-> [st EXCEPT !.cfg = IF b THEN "true" ELSE "false"], err |-> GIT_OK]

\* git_repository__configmap_lookup(&out, repo, GIT_CONFIGMAP_SPARSECHECKOUT)
configmap_sparsecheckout(st) == st.cfg = "true"

(***************************************************************************)
(* Text helpers of the library.                                            *)
(***************************************************************************)
RECURSIVE StripLeading(_, _)
StripLeading(s, c) ==
    IF Len(s) > 0 /\ s[1] = c THEN StripLeading(Tail(s), c) ELSE s

\* git_str_join(&buf, separator, str_a, str_b)
git_str_join(sep, a, b) ==
    IF Len(a) = 0 THEN b
    ELSE LET b2 == StripLeading(b, sep)
         IN  IF a[Len(a)] # sep THEN a \o <<sep>> \o b2 ELSE a \o b2

\* the loop of git_sparse_checkout__set that builds the file content
RECURSIVE JoinPatterns(_, _)
JoinPatterns(content, patterns) ==
    IF patterns = <<>> THEN content
    ELSE JoinPatterns(git_str_join(LF, content, Head(patterns)), Tail(patterns))

\* git__strtok_(&scan, "\r\n", "\n", "\0") driven by the loop of
\* git_sparse_checkout__list: the non-empty tokens between line terminators
RECURSIVE Tokens(_, _)
Tokens(data, cur) ==
    IF data = <<>> THEN (IF cur = <<>> THEN <<>> ELSE <<cur>>)
    ELSE IF Head(data) = LF \/ Head(data) = CR
         THEN (IF cur = <<>> THEN <<>> ELSE <<cur>>) \o Tokens(Tail(data), <<>>)
         ELSE Tokens(Tail(data), Append(cur, Head(data)))

\* git_futils_truncate(path, mode): creat(2), an existing file is emptied
git_futils_truncate(st, fault) ==
    IF fault = "truncate"
    THEN [st |-> st, err |-> GIT_ERROR]
    ELSE [st |-> [st EXCEPT !.exists = TRUE, !.file = <<>>], err |-> GIT_OK]

\* git_futils_writebuffer(&content, path, O_WRONLY, 0644): no O_CREAT, no
\* O_TRUNC, the bytes are written from offset 0 over what the file holds
git_futils_writebuffer(st, content, fault) ==
    IF fault = "write" \/ ~st.exists
    THEN [st |-> st, err |-> GIT_ERROR]
    ELSE [st |-> [st EXCEPT !.file =
                    content \o SubSeq(st.file, Len(content) + 1, Len(st.file))],
          err |-> GIT_OK]

(***************************************************************************)
(* Pattern store.                                                          *)
(***************************************************************************)
\* git_sparse_checkout__list
git_sparse_checkout__list(st, fault) ==
    IF fault = "read" \/ ~st.exists
    THEN [patterns |-> <<>>, err |-> GIT_ERROR]
    ELSE [patterns |-> Tokens(st.file, <<>>), err |-> GIT_OK]

\* mutant of git_sparse_checkout__set: the file is not truncated before the
\* content is written over it
git_sparse_checkout__set_no_truncate(st, patterns, fault) ==
    git_futils_writebuffer([st EXCEPT !.exists = TRUE],
                           JoinPatterns(<<>>, patterns), fault)

\* git_sparse_checkout__set
git_sparse_checkout__set(st, patterns, fault) ==
    LET content == JoinPatterns(<<>>, patterns)
        t == git_futils_truncate(st, fault)
    IN  IF t.err < 0 THEN t
        ELSE git_futils_writebuffer(t.st, content, fault)

\* mutant of git_sparse_checkout__add: the new patterns are inserted before
\* the existing ones
git_sparse_checkout__add_prepend(st, patterns, fault) ==
    LET l == git_sparse_checkout__list(st, fault)
    IN  IF l.err < 0 THEN [st |-> st, err |-> l.err]
        ELSE git_sparse_checkout__set(st, patterns \o l.patterns, fault)

\* git_sparse_checkout__add
git_sparse_checkout__add(st, patterns, fault) ==
    LET l == git_sparse_checkout__list(st, fault)
    IN  IF l.err < 0 THEN [st |-> st, err |-> l.err]
        ELSE git_sparse_checkout__set(st, l.patterns \o patterns, fault)

\* mutant of git_sparse_attr_file__init: existence is tested after the file
\* was created
git_sparse_attr_file__init_tests_late(st, fault) ==
    IF st.exists
    THEN [st |-> st, err |-> GIT_OK, file_exists |-> TRUE]
    ELSE IF fault = "creat"
         THEN [st |-> st, err |-> GIT_ERROR, file_exists |-> FALSE]
         ELSE [st |-> [st EXCEPT !.exists = TRUE, !.file = <<>>],
               err |-> GIT_OK, file_exists |-> TRUE]

\* git_sparse_attr_file__init: the file is created when it is missing
git_sparse_attr_file__init(st, fault) ==
    IF st.exists
    THEN [st |-> st, err |-> GIT_OK, file_exists |-> TRUE]
    ELSE IF fault = "creat"
         THEN [st |-> st, err |-> GIT_ERROR, file_exists |-> FALSE]
         ELSE [st |-> [st EXCEPT !.exists = TRUE, !.file = <<>>],
               err |-> GIT_OK, file_exists |-> FALSE]

\* git_sparse__init_
git_sparse__init_(st, fault) ==
    LET r == git_sparse_attr_file__init(st, fault)
    IN  IF r.err < 0 /\ r.err = GIT_ENOTFOUND
        THEN [r EXCEPT !.err = GIT_OK]
        ELSE r

\* git_sparse__init
git_sparse__init(st, fault) ==
    LET r == git_sparse__init_(st, fault)
    IN  [st |-> r.st, err |-> r.err]

(***************************************************************************)
(* Checkout controller.                                                    *)
(***************************************************************************)
DefaultPatterns == <<DefaultPattern1, DefaultPattern2>>

\* mutant of git_sparse_checkout_init: the defaults are written without
\* testing file_exists
git_sparse_checkout_init_always_writes(st, fault) ==
    LET c == git_config_set_bool(st, TRUE, fault)
    IN  IF c.err < 0 THEN [st |-> st, err |-> c.err]
        ELSE LET i == git_sparse__init_(c.st, fault)
             IN  IF i.err < 0 THEN [st |-> i.st, err |-> i.err]
                 ELSE git_sparse_checkout__set(i.st, DefaultPatterns, fault)

\* git_sparse_checkout_init
git_sparse_checkout_init(st, fault) ==
    LET c == git_config_set_bool(st, TRUE, fault)
    IN  IF c.err < 0 THEN [st |-> st, err |-> c.err]
        ELSE LET i == git_sparse__init_(c.st, fault)
             IN  IF i.err < 0 THEN [st |-> i.st, err |-> i.err]
                 ELSE IF ~i.file_exists
                      THEN git_sparse_checkout__set(i.st, DefaultPatterns, fault)
                      ELSE [st |-> i.st, err |-> GIT_OK]

\* mutant of git_sparse_checkout_disable: the pattern file is emptied too
git_sparse_checkout_disable_clears_file(st, fault) ==
    LET c == git_config_set_bool(st, FALSE, fault)
    IN  IF c.err < 0 THEN c
        ELSE [st |-> [c.st EXCEPT !.file = <<>>], err |-> GIT_OK]

\* git_sparse_checkout_disable
git_sparse_checkout_disable(st, fault) ==
    git_config_set_bool(st, FALSE, fault)

\* The "done:" label of git_sparse_checkout_set / git_sparse_checkout_add /
\* git_sparse_checkout_list reached before `sparse` or `patternlist` was
\* initialised: git_sparse__free and git_vector_free read an uninitialised
\* pointer.  The call returns err when the stack slot happens to hold NULL
\* and the process dies otherwise.
UninitialisedFree(st, err) == [st |-> st, err |-> err, ub |-> TRUE]

Returned(r) == [st |-> r.st, err |-> r.err, ub |-> FALSE]

\* the outcomes of a call: it returns, or, after an uninitialised free, it
\* may also have crashed
Crashed(r) == IF r.ub THEN {FALSE, TRUE} ELSE {FALSE}

\* mutant of git_sparse_checkout_set: sparse checkout is not initialised
\* when it is not enabled
git_sparse_checkout_set_without_init(st, patterns, fault) ==
    LET s == git_sparse__init(st, fault)
    IN  IF s.err < 0
        THEN UninitialisedFree(s.st, s.err)
        ELSE Returned(git_sparse_checkout__set(s.st, patterns, fault))

\* git_sparse_checkout_set
git_sparse_checkout_set(st, patterns, fault) ==
    LET g == git_config_get_bool(st)
        i == IF ~g.value THEN git_sparse_checkout_init(st, fault)
             ELSE [st |-> st, err |-> GIT_OK]
        \* err = git_sparse_checkout_init(&opts, repo) < 0
        err1 == IF i.err < 0 THEN 1 ELSE 0
    IN  IF ~g.value /\ err1 # 0
        THEN UninitialisedFree(i.st, err1)
        ELSE LET s == git_sparse__init(i.st, fault)
             IN  IF s.err < 0
                 THEN UninitialisedFree(s.st, s.err)
                 ELSE Returned(git_sparse_checkout__set(s.st, patterns, fault))

\* git_sparse_checkout_add
git_sparse_checkout_add(st, patterns, fault) ==
    LET g == git_config_get_bool(st)
    IN  IF ~g.value
        THEN UninitialisedFree(st, g.err)
        ELSE LET s == git_sparse__init(st, fault)
             IN  IF s.err < 0
                 THEN UninitialisedFree(s.st, s.err)
                 ELSE Returned(git_sparse_checkout__add(s.st, patterns, fault))

\* git_sparse_checkout_list
git_sparse_checkout_list(st, fault) ==
    LET s == git_sparse__init(st, fault)
    IN  IF s.err # 0
        THEN [st |-> s.st, err |-> s.err, ub |-> TRUE, patterns |-> <<>>]
        ELSE LET l == git_sparse_checkout__list(s.st, fault)
             IN  [st |-> s.st, err |-> l.err, ub |-> FALSE,
                  patterns |-> IF l.err = 0 THEN l.patterns ELSE <<>>]

(***************************************************************************)
(* References to the repository's configuration taken and released by the *)
(* public functions: the change of its reference count made by one call.  *)
(***************************************************************************)
\* git_repository_config__weakptr(&cfg, repo): a borrowed handle, no reference
git_repository_config__weakptr == 0

\* git_repository_config(&cfg, repo): an owned handle, one reference
git_repository_config == 1

\* git_config_free(cfg): one reference is released
git_config_free == -1

\* git_sparse_checkout_disable: git_repository_config, done: git_config_free
config_refs_disable(st, fault) == git_repository_config + git_config_free

\* git_sparse_checkout_init: weakptr; `return error` when git_config_set_bool
\* fails, every later exit through cleanup: git_config_free
config_refs_init(st, fault) ==
    IF git_config_set_bool(st, TRUE, fault).err < 0
    THEN git_repository_config__weakptr
    ELSE git_repository_config__weakptr + git_config_free

\* git_sparse_checkout_set: git_repository_config, the references of the
\* implicit git_sparse_checkout_init, done: git_config_free
config_refs_set(st, fault) ==
    git_repository_config
        + (IF ~git_config_get_bool(st).value THEN config_refs_init(st, fault) ELSE 0)
        + git_config_free

\* git_sparse_checkout_add: weakptr, every later exit through done:
\* git_config_free
config_refs_add(st, fault) == git_repository_config__weakptr + git_config_free

\* git_sparse_checkout_list and git_sparse_check_path take no handle
config_refs_none == 0

(***************************************************************************)
(* Rule parser.  A rule is a git_attr_fnmatch: its pattern text and the    *)
(* set of GIT_ATTR_FNMATCH_* flags that are set.                           *)
(***************************************************************************)
\* core.ignorecase of the repository (GIT_CONFIGMAP_IGNORECASE)
ignore_case == FALSE

CharAt(s, i) == IF i >= 1 /\ i <= Len(s) THEN s[i] ELSE "NUL"

\* git__iswildcard
git__iswildcard(c) == c \in {"*", "?", "["}

RECURSIVE SkipUntilLF(_, _)
SkipUntilLF(data, i) ==
    IF i > Len(data) \/ data[i] = LF THEN i ELSE SkipUntilLF(data, i + 1)

RECURSIVE SkipLineEnds(_, _)
SkipLineEnds(data, i) ==
    IF i <= Len(data) /\ data[i] \in {LF, CR} THEN SkipLineEnds(data, i + 1) ELSE i

\* git__next_line
git__next_line(data, i) == SkipLineEnds(data, SkipUntilLF(data, i))

\* the scanning loop of git_attr_fnmatch__parse ("Scan until a non-escaped
\* whitespace"), with ALLOWSPACE set: only a line feed ends the pattern
RECURSIVE ScanPattern(_, _, _, _, _)
ScanPattern(data, scan, pattern, flags, slashes) ==
    IF scan > Len(data) \/ data[scan] = LF
    THEN [scan |-> scan, pattern |-> pattern, flags |-> flags, slashes |-> slashes]
    ELSE IF data[scan] = "/"
         THEN ScanPattern(data, scan + 1,
                          IF slashes = 0 /\ pattern = scan THEN pattern + 1 ELSE pattern,
                          flags \cup {"FULLPATH"}, slashes + 1)
         ELSE IF git__iswildcard(data[scan])
              THEN ScanPattern(data, scan + 1, pattern, flags \cup {"HASWILD"}, slashes)
              ELSE ScanPattern(data, scan + 1, pattern, flags, slashes)

\* "Remove trailing spaces."
RECURSIVE TrimTrailingSpaces(_)
TrimTrailingSpaces(p) ==
    IF Len(p) > 0 /\ p[Len(p)] \in {" ", "\t"}
    THEN TrimTrailingSpaces(SubSeq(p, 1, Len(p) - 1))
    ELSE p

NoRule == [pattern |-> <<>>, flags |-> {}]

\* git_attr_fnmatch__parse(match, pool, NULL, &scan) with the incoming flags
\* ALLOWSPACE | ALLOWNEG: the rule of the line at `base`, and the new `base`
git_attr_fnmatch__parse(data, base) ==
    IF base = Len(data) /\ data[base] \in {"*", "."}
    THEN \* parse_optimized_patterns
         [err |-> GIT_OK, base |-> base,
          rule |-> [pattern |-> <<data[base]>>, flags |-> {"MATCH_ALL"}]]
    ELSE IF \/ CharAt(data, base) \in {"NUL", "#", LF}
            \/ (CharAt(data, base) = CR /\ CharAt(data, base + 1) = LF)
    THEN [err |-> GIT_ENOTFOUND, base |-> git__next_line(data, base), rule |-> NoRule]
    ELSE LET neg == data[base] = "!"
             start == IF neg THEN base + 1 ELSE base
             sc == ScanPattern(data, start, start,
                               IF neg THEN {"NEGATIVE"} ELSE {}, 0)
             raw == SubSeq(data, sc.pattern, sc.scan - 1)
             noCr == IF Len(raw) > 0 /\ raw[Len(raw)] = CR
                     THEN SubSeq(raw, 1, Len(raw) - 1) ELSE raw
             trimmed == IF Len(noCr) > 0 THEN TrimTrailingSpaces(noCr) ELSE noCr
             isDir == Len(trimmed) > 0 /\ trimmed[Len(trimmed)] = "/"
             text == IF isDir THEN SubSeq(trimmed, 1, Len(trimmed) - 1) ELSE trimmed
             flags == IF isDir
                      THEN (IF sc.slashes - 1 <= 0
                            THEN sc.flags \ {"FULLPATH"} ELSE sc.flags)
                           \cup {"DIRECTORY"}
                      ELSE sc.flags
         IN  IF Len(raw) = 0 \/ Len(noCr) = 0 \/ Len(trimmed) = 0
             THEN [err |-> GIT_ENOTFOUND, base |-> sc.scan, rule |-> NoRule]
             ELSE [err |-> GIT_OK, base |-> sc.scan,
                   rule |-> [pattern |-> text, flags |-> flags]]

Contains(s, c) == \E i \in 1..Len(s) : s[i] = c

(***************************************************************************)
(* wildmatch(pattern, text, flags): "*" matches within a path segment when *)
(* WM_PATHNAME is set and across segments otherwise, "**" between slashes  *)
(* matches across segments, "?" matches one character, the rest is         *)
(* literal.  `prev` is the pattern character before p ("NUL" at its start).*)
(***************************************************************************)
RECURSIVE DropStars(_)
DropStars(p) == IF Len(p) > 0 /\ p[1] = "*" THEN DropStars(Tail(p)) ELSE p

RECURSIVE dowild(_, _, _, _)
dowild(p, t, pathname, prev) ==
    IF Len(p) = 0 THEN Len(t) = 0
    ELSE IF p[1] = "*"
    THEN LET rest == DropStars(p)
             double == Len(p) - Len(rest) >= 2
             bounded == prev \in {"NUL", "/"} /\ (Len(rest) = 0 \/ rest[1] = "/")
             match_slash == IF double THEN (~pathname \/ bounded) ELSE ~pathname
         IN  \/ double /\ pathname /\ bounded /\ Len(rest) > 0
                /\ dowild(Tail(rest), t, pathname, "/")
             \/ Len(rest) = 0 /\ (match_slash \/ ~Contains(t, "/"))
             \/ Len(rest) > 0 /\ \E k \in 0..(Len(t) - 1) :
                    /\ match_slash \/ ~Contains(SubSeq(t, 1, k), "/")
                    /\ dowild(rest, SubSeq(t, k + 1, Len(t)), pathname, "*")
    ELSE IF Len(t) = 0 THEN FALSE
    ELSE IF p[1] = "?"
    THEN ~(pathname /\ t[1] = "/") /\ dowild(Tail(p), Tail(t), pathname, "?")
    ELSE p[1] = t[1] /\ dowild(Tail(p), Tail(t), pathname, p[1])

wildmatch(p, t, pathname) == dowild(p, t, pathname, "NUL")

\* does_negate_pattern
does_negate_pattern(rule, neg) ==
    IF "NEGATIVE" \in rule.flags \/ "NEGATIVE" \notin neg.flags THEN FALSE
    ELSE IF Len(rule.pattern) = Len(neg.pattern) THEN rule.pattern = neg.pattern
    ELSE LET shorter == IF Len(rule.pattern) < Len(neg.pattern)
                        THEN rule.pattern ELSE neg.pattern
             longer == IF Len(rule.pattern) < Len(neg.pattern)
                       THEN neg.pattern ELSE rule.pattern
             p == Len(longer) - Len(shorter) + 1
         IN  /\ longer[p - 1] = "/"
             /\ ~Contains(shorter, "/")
             /\ SubSeq(longer, p, Len(longer)) = shorter

\* git_attr__does_negate_rule(&valid_rule, &attrs->rules, match)
git_attr__does_negate_rule(rules, match) ==
    \E i \in 1..Len(rules) :
        IF "HASWILD" \notin rules[i].flags
        THEN does_negate_pattern(rules[i], match)
        ELSE wildmatch(rules[i].pattern, match.pattern, "FULLPATH" \in rules[i].flags)

\* mutant of ParseLines: the error of a skipped line is not cleared, so
\* the loop ends at the first empty or malformed line
RECURSIVE ParseLines_keeps_ENOTFOUND(_, _, _, _)
ParseLines_keeps_ENOTFOUND(data, scan, rules, error) ==
    IF error # GIT_OK \/ scan > Len(data) THEN [rules |-> rules, error |-> error]
    ELSE LET r == git_attr_fnmatch__parse(data, scan)
             rule == [r.rule EXCEPT !.flags =
                        @ \cup {"IGNORE"} \cup (IF ignore_case THEN {"ICASE"} ELSE {})]
             valid_rule ==
                 IF "NEGATIVE" \in rule.flags /\ "HASWILD" \notin rule.flags
                 THEN git_attr__does_negate_rule(rules, rule)
                 ELSE TRUE
         IN  IF r.err = GIT_OK
             THEN ParseLines_keeps_ENOTFOUND(data, git__next_line(data, r.base),
                             IF valid_rule THEN Append(rules, rule) ELSE rules,
                             GIT_OK)
             ELSE ParseLines_keeps_ENOTFOUND(data, r.base, rules, r.err)

\* parse_sparse_file: while (!error && *scan), one line per iteration; the
\* result is the rules vector and the value of error when the loop ends
RECURSIVE ParseLines(_, _, _, _)
ParseLines(data, scan, rules, error) ==
    IF error # GIT_OK \/ scan > Len(data) THEN [rules |-> rules, error |-> error]
    ELSE LET r == git_attr_fnmatch__parse(data, scan)
             rule == [r.rule EXCEPT !.flags =
                        @ \cup {"IGNORE"} \cup (IF ignore_case THEN {"ICASE"} ELSE {})]
             valid_rule ==
                 IF "NEGATIVE" \in rule.flags /\ "HASWILD" \notin rule.flags
                 THEN git_attr__does_negate_rule(rules, rule)
                 ELSE TRUE
         IN  IF r.err = GIT_OK
             THEN ParseLines(data, git__next_line(data, r.base),
                             IF valid_rule THEN Append(rules, rule) ELSE rules,
                             GIT_OK)
             ELSE ParseLines(data, r.base, rules,
                             IF r.err = GIT_ENOTFOUND THEN GIT_OK ELSE r.err)

\* parse_sparse_file without allocation or lock failure: rules and return
parse_sparse_file_return(data) == ParseLines(data, 1, <<>>, GIT_OK)

\* parse_sparse_file: the RuleSet of the pattern text
parse_sparse_file(data) == parse_sparse_file_return(data).rules

(***************************************************************************)
(* Lookup engine.  A git_attr_path is the path text, the offset of its     *)
(* basename in it (0 when basename == path) and is_dir.                    *)
(***************************************************************************)
GIT_SPARSE_CHECKOUT == "Included"
GIT_SPARSE_NOCHECKOUT == "Excluded"

RECURSIVE StripTrailingSlashes(_)
StripTrailingSlashes(s) ==
    IF Len(s) > 0 /\ s[Len(s)] = "/"
    THEN StripTrailingSlashes(SubSeq(s, 1, Len(s) - 1)) ELSE s

\* offset just after the last "/" of s at or before position i, 0 when none
RECURSIVE AfterLastSlash(_, _)
AfterLastSlash(s, i) ==
    IF i = 0 THEN 0 ELSE IF s[i] = "/" THEN i ELSE AfterLastSlash(s, i - 1)

\* git_attr_path__init(&path, pathname, workdir, dir_flag)
git_attr_path__init(pathname, dir_flag) ==
    LET p == StripLeading(StripTrailingSlashes(pathname), "/")
    IN  [path |-> p, basename |-> AfterLastSlash(p, Len(p)), is_dir |-> dir_flag]

Basename(path) == SubSeq(path.path, path.basename + 1, Len(path.path))

\* git_attr_fnmatch__match
git_attr_fnmatch__match(match, path) ==
    LET full == "FULLPATH" \in match.flags
        filename == IF full THEN path.path ELSE Basename(path)
    IN  IF "DIRECTORY" \in match.flags /\ ~path.is_dir
        THEN /\ "IGNORE" \in match.flags
             /\ path.basename # 0
             /\ match.pattern # path.path
             /\ wildmatch(match.pattern, path.path, full)
        ELSE wildmatch(match.pattern, filename, full)

\* sparse_lookup_in_rules: git_vector_rforeach from rule j down to rule 1;
\* the decision of the first rule that matches, "none" when no rule does
RECURSIVE sparse_lookup_from(_, _, _)
sparse_lookup_from(rules, j, path) ==
    IF j = 0 THEN "none"
    ELSE IF "DIRECTORY" \in rules[j].flags /\ ~path.is_dir
         THEN sparse_lookup_from(rules, j - 1, path)
         ELSE IF git_attr_fnmatch__match(rules[j], path)
              THEN (IF "NEGATIVE" \notin rules[j].flags
                    THEN GIT_SPARSE_CHECKOUT ELSE GIT_SPARSE_NOCHECKOUT)
              ELSE sparse_lookup_from(rules, j - 1, path)

\* mutant of sparse_lookup_in_rules: the rules are scanned in file order
\* (git_vector_foreach), so the first declared matching rule decides
RECURSIVE sparse_lookup_forward(_, _, _)
sparse_lookup_forward(rules, j, path) ==
    IF j > Len(rules) THEN "none"
    ELSE IF "DIRECTORY" \in rules[j].flags /\ ~path.is_dir
         THEN sparse_lookup_forward(rules, j + 1, path)
         ELSE IF git_attr_fnmatch__match(rules[j], path)
              THEN (IF "NEGATIVE" \notin rules[j].flags
                    THEN GIT_SPARSE_CHECKOUT ELSE GIT_SPARSE_NOCHECKOUT)
              ELSE sparse_lookup_forward(rules, j + 1, path)

sparse_lookup_in_rules_file_order(rules, path) == sparse_lookup_forward(rules, 1, path)

sparse_lookup_in_rules(rules, path) == sparse_lookup_from(rules, Len(rules), path)

\* mutant of MoveUp: the path is not cut at the basename (no
\* path.basename[-1] = '\0'), only the basename moves to the parent's
MoveUp_keeps_path(path) ==
    [path |-> path.path,
     basename |-> AfterLastSlash(path.path, path.basename - 1),
     is_dir |-> TRUE]

\* mutant of MoveUp: path.is_dir is not set when moving to the parent
MoveUp_keeps_is_dir(path) ==
    LET cut == SubSeq(path.path, 1, path.basename - 1)
    IN  [path |-> cut, basename |-> AfterLastSlash(cut, Len(cut)),
         is_dir |-> path.is_dir]

\* "move up one directory" in git_sparse__lookup
MoveUp(path) ==
    LET cut == SubSeq(path.path, 1, path.basename - 1)
    IN  [path |-> cut, basename |-> AfterLastSlash(cut, Len(cut)), is_dir |-> TRUE]

\* mutant of LookupWalk: the decision is not reset to NOCHECKOUT before the
\* walk, so a walk without a match ends with CHECKOUT
RECURSIVE LookupWalk_default_checkout(_, _)
LookupWalk_default_checkout(rules, path) ==
    LET found == sparse_lookup_in_rules(rules, path)
    IN  IF found # "none" THEN found
        ELSE IF path.basename = 0 THEN GIT_SPARSE_CHECKOUT
        ELSE LookupWalk_default_checkout(rules, MoveUp(path))

\* mutant of LookupWalk: the walk does not stop at the first level with a
\* match, so a match at a shallower level replaces the decision
RECURSIVE LookupWalk_walks_on(_, _)
LookupWalk_walks_on(rules, path) ==
    LET found == sparse_lookup_in_rules(rules, path)
        above == IF path.basename = 0 THEN "none"
                 ELSE LookupWalk_walks_on(rules, MoveUp(path))
    IN  IF path.basename # 0 /\ above # GIT_SPARSE_NOCHECKOUT THEN above
        ELSE IF found # "none" THEN found
        ELSE GIT_SPARSE_NOCHECKOUT

\* git_sparse__lookup from "No match -> no checkout": the while (1) loop
RECURSIVE LookupWalk(_, _)
LookupWalk(rules, path) ==
    LET found == sparse_lookup_in_rules(rules, path)
    IN  IF found # "none" THEN found
        ELSE IF path.basename = 0 THEN GIT_SPARSE_NOCHECKOUT
        ELSE LookupWalk(rules, MoveUp(path))

\* git_sparse__lookup
git_sparse__lookup(rules, pathname, dir_flag) ==
    LookupWalk(rules, git_attr_path__init(pathname, dir_flag))

\* mutant of git_sparse_check_path: the enabled flag is not consulted
git_sparse_check_path_no_gate(st, pathname, fault) ==
    LET s == git_sparse__init(st, fault)
        dir_flag == Len(pathname) > 0 /\ pathname[Len(pathname)] = "/"
    IN  IF s.err < 0
        THEN [st |-> s.st, err |-> s.err, checkout |-> GIT_SPARSE_CHECKOUT]
        ELSE [st |-> s.st, err |-> GIT_OK,
              checkout |-> git_sparse__lookup(parse_sparse_file(s.st.file),
                                              pathname, dir_flag)]

\* git_sparse_check_path
git_sparse_check_path(st, pathname, fault) ==
    IF ~configmap_sparsecheckout(st)
    THEN [st |-> st, err |-> GIT_OK, checkout |-> GIT_SPARSE_CHECKOUT]
    ELSE LET s == git_sparse__init(st, fault)
             dir_flag == Len(pathname) > 0 /\ pathname[Len(pathname)] = "/"
         IN  IF s.err < 0
             THEN [st |-> s.st, err |-> s.err, checkout |-> GIT_SPARSE_CHECKOUT]
             ELSE [st |-> s.st, err |-> GIT_OK,
                   checkout |-> git_sparse__lookup(parse_sparse_file(s.st.file),
                                                   pathname, dir_flag)]

\* the paths callers classify
KeepTxt == <<"k", "e", "e", "p", ".", "t", "x", "t">>
OtherTxt == <<"o", "t", "h", "e", "r", ".", "t", "x", "t">>
RootFile == <<"r", "o", "o", "t", "_", "f", "i", "l", "e">>
SubDirFile == <<"s", "u", "b", "/", "d", "i", "r", "_", "f", "i", "l", "e">>
DeepKeepTxt == <<"s", "u", "b", "/", "d", "/", "k", "e", "e", "p", ".", "t", "x", "t">>
SubDir == <<"s", "u", "b", "/">>
DeepDir == <<"s", "u", "b", "/", "d", "/">>
Paths == {KeepTxt, OtherTxt, RootFile, SubDirFile, DeepKeepTxt, SubDir, DeepDir}


(***************************************************************************)
(* The state machine: one action per public call.                          *)
(***************************************************************************)
NoCall == [op |-> "none", arg |-> <<>>, err |-> 0, crashed |-> FALSE,
           out |-> <<>>, cfgrefs |-> 0, pre |-> Store("absent", FALSE, <<>>)]

\* no lookup, no parse and no concurrent writers in progress
NoWalk == [pc |-> "idle"]
NoParse == [pc |-> "idle"]
NoWriters == [pc |-> "idle"]

Init ==
    /\ cfg \in {"absent", "false", "true"}
    /\ \/ fileExists = FALSE /\ file = <<>>
       \/ fileExists = TRUE /\ file \in InitialFiles
    /\ last = [NoCall EXCEPT !.pre = Store(cfg, fileExists, file)]
    /\ walk = NoWalk /\ parse = NoParse /\ writers = NoWriters

Commit(st) ==
    /\ cfg' = st.cfg
    /\ fileExists' = st.exists
    /\ file' = st.file
    /\ UNCHANGED <<walk, parse, writers>>

Result(name, a, r, c, o, k) ==
    [op |-> name, arg |-> a, err |-> r.err, crashed |-> c, out |-> o,
     cfgrefs |-> k, pre |-> Current]

call_init ==
    \E fault \in {"none", "cfgset", "creat", "truncate", "write"} :
        LET r == git_sparse_checkout_init(Current, fault)
        IN  /\ Commit(r.st)
            /\ last' = Result("init", <<>>, r, FALSE, <<>>,
                             config_refs_init(Current, fault))

call_disable ==
    \E fault \in {"none", "cfgset"} :
        LET r == git_sparse_checkout_disable(Current, fault)
        IN  /\ Commit(r.st)
            /\ last' = Result("disable", <<>>, r, FALSE, <<>>,
                             config_refs_disable(Current, fault))

call_set ==
    \E P \in PatternArgs, fault \in {"none", "cfgset", "creat", "truncate", "write"} :
        LET r == git_sparse_checkout_set(Current, P, fault)
        IN  /\ Commit(r.st)
            /\ \E c \in Crashed(r) :
                  last' = Result("set", P, r, c, <<>>,
                                 config_refs_set(Current, fault))

call_add ==
    \E Q \in PatternArgs, fault \in {"none", "creat", "read", "truncate", "write"} :
        /\ Len(Tokens(file, <<>>)) + Len(Q) <= MaxLines
        /\ LET r == git_sparse_checkout_add(Current, Q, fault)
           IN  /\ Commit(r.st)
               /\ \E c \in Crashed(r) :
                     last' = Result("add", Q, r, c, <<>>,
                                    config_refs_add(Current, fault))

call_list ==
    \E fault \in {"none", "creat", "read"} :
        LET r == git_sparse_checkout_list(Current, fault)
        IN  /\ Commit(r.st)
            /\ \E c \in Crashed(r) :
                  last' = Result("list", <<>>, r, c, r.patterns,
                                 config_refs_none)

call_check_path ==
    \E pathname \in Paths, fault \in {"none", "creat"} :
        LET r == git_sparse_check_path(Current, pathname, fault)
        IN  /\ Commit(r.st)
            /\ last' = Result("check_path", pathname, r, FALSE, r.checkout,
                             config_refs_none)

Next ==
    \/ call_init
    \/ call_disable
    \/ call_set
    \/ call_add
    \/ call_list
    \/ call_check_path

Spec == Init /\ [][Next]_vars

(***************************************************************************)
(* git_sparse__lookup step by step: one action per evaluation of the rules *)
(* at the cursor, per move of the cursor to the parent, and the return.    *)
(***************************************************************************)
\* the directory flag git_sparse_check_path derives from the path
DirFlagOf(pathname) == Len(pathname) > 0 /\ pathname[Len(pathname)] = "/"

\* the pattern files looked up in
LookupFiles ==
    {JoinPatterns(<<>>, P) : P \in SeqsUpTo(PatternPool, MaxPatterns)}
        \cup InitialFiles

InitLookup ==
    /\ cfg = "true" /\ fileExists = TRUE /\ file \in LookupFiles
    /\ last = [NoCall EXCEPT !.pre = Store(cfg, fileExists, file)]
    /\ parse = NoParse /\ writers = NoWriters
    /\ \E pathname \in Paths :
          walk = [pc |-> "rules", pathname |-> pathname,
                  rules |-> parse_sparse_file(file),
                  path |-> git_attr_path__init(pathname, DirFlagOf(pathname)),
                  checkout |-> GIT_SPARSE_NOCHECKOUT, matched |-> FALSE,
                  evaluated |-> <<>>, err |-> GIT_OK]

\* if (sparse_lookup_in_rules(checkout, sparse->sparse, &path)) goto cleanup;
\* if (path.basename == path.path) break;
AfterRules(w, found) ==
    [w EXCEPT !.evaluated = Append(@, w.path.path),
              !.matched = found # "none",
              !.checkout = IF found # "none" THEN found ELSE @,
              !.pc = IF found # "none" \/ w.path.basename = 0
                     THEN "cleanup" ELSE "up"]

lookup_rules ==
    /\ walk.pc = "rules"
    /\ walk' = AfterRules(walk, sparse_lookup_in_rules(walk.rules, walk.path))
    /\ UNCHANGED <<cfg, fileExists, file, last, parse, writers>>

\* move up one directory
lookup_move_up ==
    /\ walk.pc = "up"
    /\ walk' = [walk EXCEPT !.path = MoveUp(@), !.pc = "rules"]
    /\ UNCHANGED <<cfg, fileExists, file, last, parse, writers>>

\* cleanup: git_attr_path__free(&path); return 0;
lookup_return ==
    /\ walk.pc = "cleanup"
    /\ walk' = [walk EXCEPT !.pc = "returned", !.err = GIT_OK]
    /\ UNCHANGED <<cfg, fileExists, file, last, parse, writers>>

NextLookup ==
    \/ lookup_rules
    \/ lookup_move_up
    \/ lookup_return

SpecLookup == InitLookup /\ [][NextLookup]_vars

\* the lookup runs in the calling thread, which keeps running
SpecLookupFair == SpecLookup /\ WF_vars(NextLookup)

(***************************************************************************)
(* parse_sparse_file step by step, in several threads that parse the same  *)
(* text into the same RuleSet: the lock, one loop iteration per step, the  *)
(* unlock.  git_mutex_lock, git__calloc and git_vector_insert may fail.    *)
(***************************************************************************)
Threads == 1..MaxThreads

\* the pattern files parsed
ParseFiles ==
    {CrLfFile, BlankLineFile, JoinPatterns(<<>>, <<NotKeepTxt, DefaultPattern1>>)}

InitParse ==
    /\ cfg = "true" /\ fileExists = TRUE /\ file \in ParseFiles
    /\ last = [NoCall EXCEPT !.pre = Store(cfg, fileExists, file)]
    /\ walk = NoWalk /\ writers = NoWriters
    /\ parse = [pc |-> "run", lock |-> 0, rules |-> <<>>, stray |-> FALSE,
                th |-> [t \in Threads |->
                          [pc |-> "lock", scan |-> 1, error |-> GIT_OK,
                           held |-> FALSE, unlocks |-> 0, inserted |-> 0]]]

Running(t) == parse.pc = "run" /\ t \in Threads

\* match->flags |= GIT_ATTR_FNMATCH_IGNORE (and ICASE) on a parsed rule
RuleOfParse(r) ==
    [r.rule EXCEPT !.flags =
        @ \cup {"IGNORE"} \cup (IF ignore_case THEN {"ICASE"} ELSE {})]

\* valid_rule: a negated rule without wildcards must negate an earlier rule
ValidRule(rules, rule) ==
    IF "NEGATIVE" \in rule.flags /\ "HASWILD" \notin rule.flags
    THEN git_attr__does_negate_rule(rules, rule)
    ELSE TRUE

\* the rest of an iteration once git_attr_fnmatch__parse has returned r
LineResult(r, data, rules, insert_ok) ==
    IF r.err # GIT_OK
    THEN [scan |-> r.base, rules |-> rules, inserted |-> FALSE,
          error |-> IF r.err = GIT_ENOTFOUND THEN GIT_OK ELSE r.err]
    ELSE IF ~ValidRule(rules, RuleOfParse(r))
    THEN [scan |-> git__next_line(data, r.base), rules |-> rules,
          inserted |-> FALSE, error |-> GIT_OK]
    ELSE IF insert_ok
    THEN [scan |-> git__next_line(data, r.base),
          rules |-> Append(rules, RuleOfParse(r)),
          inserted |-> TRUE, error |-> GIT_OK]
    ELSE [scan |-> git__next_line(data, r.base), rules |-> rules,
          inserted |-> FALSE, error |-> GIT_ERROR]

\* one iteration of the while loop without allocation failure: the next
\* scan position, the rules vector and error; git_vector_insert fails when
\* insert_ok is FALSE
LineStep(data, scan, rules, insert_ok) ==
    LineResult(git_attr_fnmatch__parse(data, scan), data, rules, insert_ok)

\* the thread's and the RuleSet's state after an iteration with result l
AfterLine(t, l) ==
    [parse EXCEPT !.rules = l.rules,
                  !.stray = @ \/ (l.inserted /\ parse.lock # t),
                  !.th[t].scan = l.scan,
                  !.th[t].error = l.error,
                  !.th[t].inserted = @ + (IF l.inserted THEN 1 ELSE 0)]

\* if (git_mutex_lock(&attrs->lock)) { git_error_set(...); return -1; }
parse_lock_failed(t) ==
    /\ Running(t) /\ parse.th[t].pc = "lock"
    /\ parse' = [parse EXCEPT !.th[t].pc = "returned", !.th[t].error = GIT_ERROR]
    /\ UNCHANGED <<cfg, fileExists, file, last, walk, writers>>

\* git_mutex_lock(&attrs->lock) returns 0: the lock was free and is taken
parse_lock(t) ==
    /\ Running(t) /\ parse.th[t].pc = "lock"
    /\ parse.lock = 0
    /\ parse' = [parse EXCEPT !.lock = t, !.th[t].pc = "loop", !.th[t].held = TRUE]
    /\ UNCHANGED <<cfg, fileExists, file, last, walk, writers>>

\* mutant of parse_alloc_failed: the failed allocation returns at once
parse_alloc_failed_returns(t) ==
    /\ Running(t) /\ parse.th[t].pc = "loop"
    /\ parse.th[t].error = GIT_OK /\ parse.th[t].scan <= Len(file)
    /\ parse' = [parse EXCEPT !.th[t].error = GIT_ERROR, !.th[t].pc = "returned"]
    /\ UNCHANGED <<cfg, fileExists, file, last, walk, writers>>

\* if (!match && !(match = git__calloc(1, sizeof(*match)))) { error = -1; break; }
parse_alloc_failed(t) ==
    /\ Running(t) /\ parse.th[t].pc = "loop"
    /\ parse.th[t].error = GIT_OK /\ parse.th[t].scan <= Len(file)
    /\ parse' = [parse EXCEPT !.th[t].error = GIT_ERROR, !.th[t].pc = "unlock"]
    /\ UNCHANGED <<cfg, fileExists, file, last, walk, writers>>

\* one iteration of while (!error && *scan)
parse_line(t) ==
    /\ Running(t) /\ parse.th[t].pc = "loop"
    /\ parse.th[t].error = GIT_OK /\ parse.th[t].scan <= Len(file)
    /\ \E insert_ok \in BOOLEAN :
          parse' = AfterLine(t, LineStep(file, parse.th[t].scan, parse.rules,
                                         insert_ok))
    /\ UNCHANGED <<cfg, fileExists, file, last, walk, writers>>

\* the loop condition fails: error is set or the text is at its end
parse_loop_exit(t) ==
    /\ Running(t) /\ parse.th[t].pc = "loop"
    /\ parse.th[t].error # GIT_OK \/ parse.th[t].scan > Len(file)
    /\ parse' = [parse EXCEPT !.th[t].pc = "unlock"]
    /\ UNCHANGED <<cfg, fileExists, file, last, walk, writers>>

\* git_mutex_unlock(&attrs->lock); git__free(match); return error;
parse_unlock(t) ==
    /\ Running(t) /\ parse.th[t].pc = "unlock"
    /\ parse' = [parse EXCEPT !.lock = 0, !.th[t].unlocks = @ + 1,
                              !.th[t].pc = "returned"]
    /\ UNCHANGED <<cfg, fileExists, file, last, walk, writers>>

NextParse ==
    \/ \E t \in Threads : parse_lock_failed(t)
    \/ \E t \in Threads : parse_lock(t)
    \/ \E t \in Threads : parse_alloc_failed(t)
    \/ \E t \in Threads : parse_line(t)
    \/ \E t \in Threads : parse_loop_exit(t)
    \/ \E t \in Threads : parse_unlock(t)

SpecParse == InitParse /\ [][NextParse]_vars

(***************************************************************************)
(* Two concurrent calls of add / set on one repository with sparse         *)
(* checkout enabled, step by step: the list of git_sparse_checkout__add,   *)
(* then the truncate and the write of git_sparse_checkout__set.            *)
(***************************************************************************)
Callers == {1, 2}

\* the pattern vectors the callers pass and the files they start from
WriterArgs == SeqsUpTo(PatternPool, MaxPatterns) \ {<<>>}
WriterFiles == {<<>>, JoinPatterns(<<>>, DefaultPatterns)}

InitWriters ==
    /\ cfg = "true" /\ fileExists = TRUE /\ file \in WriterFiles
    /\ last = [NoCall EXCEPT !.pre = Store(cfg, fileExists, file)]
    /\ walk = NoWalk /\ parse = NoParse
    /\ \E ops \in [Callers -> {"add", "set"}], args \in [Callers -> WriterArgs] :
          writers = [pc |-> "run",
                     w |-> [t \in Callers |->
                              [op |-> ops[t], arg |-> args[t], pc |-> "start",
                               patterns |-> IF ops[t] = "set" THEN args[t] ELSE <<>>,
                               content |-> <<>>, err |-> GIT_OK]]]

Calling(t) == writers.pc = "run" /\ t \in Callers

\* git_sparse_checkout__add: git_sparse_checkout__list, then existing and
\* new patterns into new_patterns
writer_list(t) ==
    /\ Calling(t)
    /\ writers.w[t].op = "add" /\ writers.w[t].pc = "start"
    /\ LET l == git_sparse_checkout__list(Current, "none")
       IN  writers' = [writers EXCEPT
                         !.w[t].patterns = l.patterns \o writers.w[t].arg,
                         !.w[t].err = l.err,
                         !.w[t].pc = IF l.err < 0 THEN "returned" ELSE "listed"]
    /\ UNCHANGED <<cfg, fileExists, file, last, walk, parse>>

\* git_sparse_checkout__set: the content is joined, git_futils_truncate
writer_truncate(t) ==
    /\ Calling(t)
    /\ \/ writers.w[t].op = "set" /\ writers.w[t].pc = "start"
       \/ writers.w[t].pc = "listed"
    /\ LET r == git_futils_truncate(Current, "none")
       IN  /\ cfg' = r.st.cfg /\ fileExists' = r.st.exists /\ file' = r.st.file
           /\ writers' = [writers EXCEPT
                            !.w[t].content = JoinPatterns(<<>>, writers.w[t].patterns),
                            !.w[t].err = r.err,
                            !.w[t].pc = IF r.err < 0 THEN "returned" ELSE "truncated"]
    /\ UNCHANGED <<last, walk, parse>>

\* git_sparse_checkout__set: git_futils_writebuffer(&content, path, O_WRONLY, 0644)
writer_write(t) ==
    /\ Calling(t)
    /\ writers.w[t].pc = "truncated"
    /\ LET r == git_futils_writebuffer(Current, writers.w[t].content, "none")
       IN  /\ cfg' = r.st.cfg /\ fileExists' = r.st.exists /\ file' = r.st.file
           /\ writers' = [writers EXCEPT !.w[t].err = r.err, !.w[t].pc = "returned"]
    /\ UNCHANGED <<last, walk, parse>>

NextWriters ==
    \/ \E t \in Callers : writer_list(t)
    \/ \E t \in Callers : writer_truncate(t)
    \/ \E t \in Callers : writer_write(t)

SpecWriters == InitWriters /\ [][NextWriters]_vars

(***************************************************************************)
(* Properties.                                                             *)
(***************************************************************************)
Succeeded == last.err = 0 /\ ~last.crashed

\* what list() returns when called in persistent state st with no failure
ListIn(st) == git_sparse_checkout_list(st, "none")

\* C1: Round-trip.  After a successful set(P), where P is any sequence of
\* non-empty strings without line terminators (empty, with duplicates), a
\* list() of the resulting state succeeds and returns exactly P.
C1_RoundTrip ==
    (last.op = "set" /\ Succeeded /\ AllPatterns(last.arg))
        => (ListIn(Current).err = 0 /\ ListIn(Current).patterns = last.arg)

\* a successful set of a sequence that holds the same pattern twice
C1_Witness ==
    /\ last.op = "set" /\ Succeeded
    /\ last.arg = <<NotKeepTxt, NotKeepTxt>>
    /\ last.pre.exists /\ last.pre.file = CrLfFile

\* C2: init never overwrites an existing pattern file.  Whenever init is
\* called while the file exists, whatever its contents and the flag, and
\* whether or not init succeeds, the file still exists afterwards with the
\* same contents.
C2_InitKeepsExistingFile ==
    (last.op = "init" /\ last.pre.exists)
        => (fileExists /\ file = last.pre.file)

\* init has run on a repository whose pattern file existed and was empty
C2_Witness ==
    /\ last.op = "init" /\ Succeeded
    /\ last.pre.exists /\ last.pre.file = <<>>
    /\ last.pre.cfg # "true"

\* C3: init called while the pattern file does not exist and succeeding
\* leaves the flag true and the file existing, and list() then returns the
\* two default patterns "/*", "!/*/" in that order.
C3_InitWritesDefaults ==
    (last.op = "init" /\ ~last.pre.exists /\ Succeeded)
        => /\ cfg = "true"
           /\ fileExists
           /\ ListIn(Current).err = 0
           /\ ListIn(Current).patterns = <<DefaultPattern1, DefaultPattern2>>

\* init has succeeded on a repository that had no pattern file
C3_Witness ==
    last.op = "init" /\ ~last.pre.exists /\ Succeeded /\ last.pre.cfg = "absent"

\* C4: disable changes exactly the enabled flag.  After a successful
\* disable the flag is false, the pattern file exists exactly if it existed
\* before, its contents are the same, and list() returns what it returned
\* before the call.
C4_DisableOnlyFlipsFlag ==
    (last.op = "disable" /\ Succeeded)
        => /\ cfg = "false"
           /\ fileExists = last.pre.exists
           /\ file = last.pre.file
           /\ ListIn(Current).patterns = ListIn(last.pre).patterns

\* disable has succeeded on an enabled repository whose file holds patterns
C4_Witness ==
    /\ last.op = "disable" /\ Succeeded
    /\ last.pre.cfg = "true" /\ last.pre.exists
    /\ Len(Tokens(last.pre.file, <<>>)) = 2

\* C5: Enabled-gate.  check_path called while the flag is not true returns
\* success and Included for every path, whatever the pattern file holds and
\* whether or not it exists.
C5_EnabledGate ==
    (last.op = "check_path" /\ last.pre.cfg # "true")
        => (last.err = 0 /\ last.out = GIT_SPARSE_CHECKOUT)

\* check_path("keep.txt") has run while disabled on a file whose rules
\* exclude keep.txt
C5_Witness ==
    /\ last.op = "check_path" /\ last.pre.cfg = "false"
    /\ last.pre.exists /\ last.pre.file = BlankLineFile
    /\ last.arg = KeepTxt

\* the lookups of an enabled check_path that ran on the rules of the
\* pattern sequence P
LookedUpIn(P) ==
    /\ last.op = "check_path" /\ last.pre.cfg = "true" /\ Succeeded
    /\ last.pre.exists /\ Tokens(last.pre.file, <<>>) = P

\* C6 as stated: with the rules of ["*.txt", "!keep.txt"], keep.txt is
\* Included and other.txt is Excluded.
C6_AsStated ==
    LookedUpIn(<<StarTxt, NotKeepTxt>>)
        => /\ last.arg = KeepTxt => last.out = GIT_SPARSE_CHECKOUT
           /\ last.arg = OtherTxt => last.out = GIT_SPARSE_NOCHECKOUT

\* C6 (amended): with the rules of ["*.txt", "!keep.txt"], keep.txt is
\* Excluded (the negated rule, declared last, decides) and other.txt is
\* Included (only "*.txt" matches it).
C6_SameLevelPrecedence ==
    LookedUpIn(<<StarTxt, NotKeepTxt>>)
        => /\ last.arg = KeepTxt => last.out = GIT_SPARSE_NOCHECKOUT
           /\ last.arg = OtherTxt => last.out = GIT_SPARSE_CHECKOUT

\* keep.txt has been looked up in the rules of ["*.txt", "!keep.txt"]
C6_Witness == LookedUpIn(<<StarTxt, NotKeepTxt>>) /\ last.arg = KeepTxt

\* a path with no directory part that is not given as a directory
IsRootFile(p) == Len(p) > 0 /\ ~Contains(p, "/")
\* a path below some directory of the work tree
IsInsideSubdirectory(p) == Contains(StripTrailingSlashes(p), "/")

\* C7: Default-pattern classification.  With the rules of the default pair
\* ["/*", "!/*/"] and sparse checkout enabled, every non-directory path at
\* the root is Included and every path inside a subdirectory, at any depth,
\* is Excluded.
C7_DefaultPatternClassification ==
    LookedUpIn(<<DefaultPattern1, DefaultPattern2>>)
        => /\ IsRootFile(last.arg) => last.out = GIT_SPARSE_CHECKOUT
           /\ IsInsideSubdirectory(last.arg) => last.out = GIT_SPARSE_NOCHECKOUT

\* a file two directories deep has been looked up in the default rules
C7_Witness ==
    LookedUpIn(<<DefaultPattern1, DefaultPattern2>>) /\ last.arg = DeepKeepTxt

\* the path and its ancestor prefixes, as the records lookup evaluates
RECURSIVE PrefixRecords(_)
PrefixRecords(path) ==
    IF path.basename = 0 THEN {path}
    ELSE {path} \cup
         PrefixRecords([path |-> SubSeq(path.path, 1, path.basename - 1),
                        basename |-> AfterLastSlash(path.path, path.basename - 1),
                        is_dir |-> TRUE])

\* no rule of the RuleSet matches the path or any of its ancestor prefixes
NoRuleMatches(rules, pathname) ==
    LET leaf == git_attr_path__init(pathname,
                    Len(pathname) > 0 /\ pathname[Len(pathname)] = "/")
    IN  \A pr \in PrefixRecords(leaf) : \A j \in 1..Len(rules) :
            \/ "DIRECTORY" \in rules[j].flags /\ ~pr.is_dir
            \/ ~git_attr_fnmatch__match(rules[j], pr)

\* C8: Default-exclude.  When the RuleSet is empty, or no rule of it matches
\* the path or any of its ancestor prefixes, the lookup of an enabled
\* check_path returns Excluded.
C8_DefaultExclude ==
    (/\ last.op = "check_path" /\ last.pre.cfg = "true" /\ Succeeded
     /\ NoRuleMatches(parse_sparse_file(file), last.arg))
        => last.out = GIT_SPARSE_NOCHECKOUT

\* a nested path has been looked up in a non-empty RuleSet of which no rule
\* matches it at any level
C8_Witness ==
    /\ last.op = "check_path" /\ last.pre.cfg = "true" /\ Succeeded
    /\ Len(parse_sparse_file(file)) = 2
    /\ last.arg = SubDirFile
    /\ NoRuleMatches(parse_sparse_file(file), last.arg)

\* the patterns the file held before the last call
PatternsBefore == IF last.pre.exists THEN Tokens(last.pre.file, <<>>) ELSE <<>>

\* C9: add appends.  After a successful add(Q) on an enabled repository
\* whose file held the sequence F, the file holds F followed by Q as set
\* writes them; for Q of patterns, list() returns exactly F \o Q (order
\* kept, duplicates kept).
C9_AddAppends ==
    (last.op = "add" /\ last.pre.cfg = "true" /\ Succeeded)
        => /\ fileExists
           /\ file = JoinPatterns(<<>>, PatternsBefore \o last.arg)
           /\ AllPatterns(last.arg)
                => ListIn(Current).patterns = PatternsBefore \o last.arg

\* add has appended a pattern that the file already held
C9_Witness ==
    /\ last.op = "add" /\ last.pre.cfg = "true" /\ Succeeded
    /\ PatternsBefore = <<NotKeepTxt>>
    /\ last.arg = <<NotKeepTxt>>

\* C10: add while the flag is false or absent returns success and leaves
\* the flag, the existence of the pattern file and its contents unchanged.
C10_AddDisabledNoOp ==
    (last.op = "add" /\ last.pre.cfg # "true")
        => /\ Succeeded
           /\ cfg = last.pre.cfg
           /\ fileExists = last.pre.exists
           /\ file = last.pre.file

\* C11: set implicitly enables.  After a successful set(P) called while the
\* flag is false or absent, the flag is true and the file holds exactly P:
\* its contents are the join of P (neither the defaults of the implicit
\* init nor the earlier patterns remain) and, for P of patterns, list()
\* returns P.
C11_SetImplicitlyEnables ==
    (last.op = "set" /\ last.pre.cfg # "true" /\ Succeeded)
        => /\ cfg = "true"
           /\ fileExists
           /\ file = JoinPatterns(<<>>, last.arg)
           /\ AllPatterns(last.arg) => ListIn(Current).patterns = last.arg

\* set of one pattern has succeeded on a disabled repository without a
\* pattern file, where the implicit init writes the defaults first
C11_Witness ==
    /\ last.op = "set" /\ Succeeded
    /\ last.pre.cfg = "false" /\ ~last.pre.exists
    /\ last.arg = <<NotKeepTxt>>

\* rule j is eligible at prefix pr of the leaf: a directory_only rule is
\* not, at the leaf, when the leaf is known not to be a directory
Eligible(rule, pr, leaf) ==
    ~("DIRECTORY" \in rule.flags /\ pr.path = leaf.path /\ ~leaf.is_dir)

\* the indices of the eligible rules that match prefix pr
MatchingAt(rules, pr, leaf) ==
    {j \in 1..Len(rules) :
        Eligible(rules[j], pr, leaf) /\ git_attr_fnmatch__match(rules[j], pr)}

SetMax(S) == CHOOSE x \in S : \A y \in S : y <= x

\* the decision by precedence: at the deepest prefix with a matching
\* eligible rule, the matching rule with the highest index decides
DecisionByPrecedence(rules, pathname) ==
    LET leaf == git_attr_path__init(pathname, DirFlagOf(pathname))
        hit == {pr \in PrefixRecords(leaf) : MatchingAt(rules, pr, leaf) # {}}
    IN  IF hit = {} THEN GIT_SPARSE_NOCHECKOUT
        ELSE LET deepest == CHOOSE pr \in hit :
                                \A q \in hit : Len(q.path) <= Len(pr.path)
                 j == SetMax(MatchingAt(rules, deepest, leaf))
             IN  IF "NEGATIVE" \in rules[j].flags
                 THEN GIT_SPARSE_NOCHECKOUT ELSE GIT_SPARSE_CHECKOUT

\* C12: Lookup precedence.  The decision of every enabled lookup is the one
\* of the highest-indexed eligible matching rule at the deepest prefix of
\* the path where an eligible rule matches (Excluded if it is negated,
\* Included otherwise); rules matching only at shallower prefixes and
\* earlier rules at the same prefix have no effect.
C12_LookupPrecedence ==
    (last.op = "check_path" /\ last.pre.cfg = "true" /\ Succeeded)
        => last.out = DecisionByPrecedence(parse_sparse_file(file), last.arg)

\* a file two directories deep was excluded by a negated rule matching at
\* the leaf although an earlier rule matches its top directory and includes
C12_Witness ==
    /\ last.op = "check_path" /\ last.pre.cfg = "true" /\ Succeeded
    /\ Tokens(file, <<>>) = <<DefaultPattern1, NotKeepTxt>>
    /\ last.arg = DeepKeepTxt
    /\ last.out = GIT_SPARSE_NOCHECKOUT

\* the lines of a text, split at every line feed
RECURSIVE SplitLines(_, _)
SplitLines(data, cur) ==
    IF data = <<>> THEN (IF cur = <<>> THEN <<>> ELSE <<cur>>)
    ELSE IF Head(data) = LF THEN <<cur>> \o SplitLines(Tail(data), <<>>)
    ELSE SplitLines(Tail(data), Append(cur, Head(data)))

\* the rule of one line taken on its own, NoRule if the line is not valid
RuleOfLine(line) ==
    LET r == git_attr_fnmatch__parse(line \o <<LF>>, 1)
    IN  IF r.err = GIT_OK
        THEN [r.rule EXCEPT !.flags = @ \cup {"IGNORE"}]
        ELSE NoRule

\* the rules of all syntactically valid lines of a text, in file order
RECURSIVE RulesOfLines(_)
RulesOfLines(lines) ==
    IF lines = <<>> THEN <<>>
    ELSE (IF RuleOfLine(Head(lines)) = NoRule THEN <<>>
          ELSE <<RuleOfLine(Head(lines))>>) \o RulesOfLines(Tail(lines))

ValidLineRules(data) == RulesOfLines(SplitLines(data, <<>>))

\* C13: Dead-rule elimination is unobservable.  Every enabled lookup
\* decides as a lookup over the rules of all syntactically valid lines of
\* the file would, that is as if no negated rule had been dropped.
C13_EliminationUnobservable ==
    (last.op = "check_path" /\ last.pre.cfg = "true" /\ Succeeded)
        => last.out = git_sparse__lookup(ValidLineRules(file), last.arg,
                                         DirFlagOf(last.arg))

RECURSIVE IsSubsequence(_, _)
IsSubsequence(a, b) ==
    IF a = <<>> THEN TRUE
    ELSE IF b = <<>> THEN FALSE
    ELSE IF Head(a) = Head(b) THEN IsSubsequence(Tail(a), Tail(b))
    ELSE IsSubsequence(a, Tail(b))

\* a rule the parser may drop: negated and free of wildcards
MayBeDropped(rule) == "NEGATIVE" \in rule.flags /\ "HASWILD" \notin rule.flags

NeverDropped(rule) == ~MayBeDropped(rule)

\* C14: Shape of the parsed RuleSet.  Parsing the pattern file returns
\* success, and its rules are a subsequence, in file order, of the rules of
\* the valid lines that contains every rule that is not negated and every
\* negated rule with a wildcard; empty and malformed lines are skipped and
\* do not end the parse.
C14_ParsedShape ==
    LET parsed == parse_sparse_file_return(file)
        valid == ValidLineRules(file)
    IN  /\ parsed.error = GIT_OK
        /\ IsSubsequence(parsed.rules, valid)
        /\ IsSubsequence(SelectSeq(valid, NeverDropped), parsed.rules)

\* a lookup has parsed a file whose two rules are separated by an empty
\* line, and both rules are in the RuleSet
C14_Witness ==
    /\ last.op = "check_path" /\ last.pre.cfg = "true" /\ Succeeded
    /\ file = BlankLineFile
    /\ <<>> \in {SplitLines(file, <<>>)[i] : i \in 1..2}
    /\ Len(parse_sparse_file(file)) = 2

\* the failures of one external call that a call of set may meet
SetFaults == {"none", "cfgset", "creat", "truncate", "write"}

\* the failures under which set, called as the last call was, ends as the
\* last call did
FaultsOfLastSet ==
    {f \in SetFaults :
        LET r == git_sparse_checkout_set(last.pre, last.arg, f)
        IN  /\ r.st = Current
            /\ r.err = last.err
            /\ last.crashed \in Crashed(r)}

\* C18: Failures inside set reach the caller.  When set is called with the
\* flag false or absent and the implicit init fails, set returns the
\* negative error code init returned and leaves the pattern file as init
\* left it.
C18_SetReturnsInitFailure ==
    (last.op = "set" /\ last.pre.cfg # "true")
        => \A f \in FaultsOfLastSet :
              LET i == git_sparse_checkout_init(last.pre, f)
              IN  i.err < 0
                    => /\ ~last.crashed
                       /\ last.err = i.err
                       /\ fileExists = i.st.exists
                       /\ file = i.st.file

\* C19: Read operations are read-only.  A call of list() or check_path()
\* leaves the enabled flag, the existence of the pattern file and its
\* contents as they were before the call (so that a file missing before a
\* run of such calls is still missing for the init that follows them).
C19_ReadsAreReadOnly ==
    last.op \in {"list", "check_path"} => Current = last.pre

\* C20: Balanced resource release.  Every public call releases exactly what
\* it acquired: it leaves the reference count of the configuration as it
\* found it (a borrowed handle is not released, an owned one is released
\* once) and releases no RuleSet or pattern list that was never
\* constructed, which is what may crash the call.
C20_BalancedRelease ==
    last.op # "none" => (last.cfgrefs = 0 /\ ~last.crashed)

\* the number of segments of a normalized path
Segments(p) == Cardinality({i \in 1..Len(p) : p[i] = "/"}) + 1

\* a is a strict prefix of b that ends where a segment of b ends
IsStrictPrefix(a, b) ==
    /\ Len(a) < Len(b)
    /\ a = SubSeq(b, 1, Len(a))
    /\ b[Len(a) + 1] = "/"

\* a lookup in progress has evaluated at most as many prefixes as its path
\* has segments, each a strict prefix of the one before, and has stopped
\* only at a match or after the single-segment prefix, with a decision
WalkShortens ==
    walk.pc # "idle" =>
        LET start == git_attr_path__init(walk.pathname, DirFlagOf(walk.pathname))
            done == Len(walk.evaluated)
        IN  /\ done <= Segments(start.path)
            /\ \A i \in 1..(done - 1) :
                  IsStrictPrefix(walk.evaluated[i + 1], walk.evaluated[i])
            /\ walk.pc = "up" => ~walk.matched
            /\ walk.pc \in {"cleanup", "returned"} =>
                  /\ done >= 1
                  /\ walk.matched \/ Segments(walk.evaluated[done]) = 1
                  /\ walk.checkout \in {GIT_SPARSE_CHECKOUT, GIT_SPARSE_NOCHECKOUT}
                  /\ walk.err = GIT_OK

\* C17: Lookup terminates and the cursor only shortens.  A lookup of a
\* normalized path of n >= 1 segments evaluates at most n prefixes, each a
\* strict prefix of the one before, stops at the first level with a match
\* or after the single-segment prefix, and eventually returns success with
\* Included or Excluded.
C17_WalkTerminates == []WalkShortens /\ <>(walk.pc = "returned")

\* a lookup of a path of three segments has returned after evaluating the
\* path, its parent and its top directory, where a rule matched
C17_Witness ==
    /\ walk.pc = "returned"
    /\ Len(walk.evaluated) = 3
    /\ walk.matched
    /\ walk.checkout = GIT_SPARSE_CHECKOUT

\* the threads between the acquisition of the lock and its release
InCriticalSection == {t \in Threads : parse.th[t].pc \in {"loop", "unlock"}}

\* C16: Parse lock protocol.  At most one thread is between acquisition and
\* release of the RuleSet's lock, and it is the holder; every insertion was
\* made by the holder; a parse that acquired the lock has released it
\* exactly once when it returns, on every exit path, and not before; a
\* parse whose acquisition failed returns an error, has inserted nothing
\* and has released nothing.
C16_LockProtocol ==
    parse.pc # "idle" =>
        /\ Cardinality(InCriticalSection) <= 1
        /\ \A t \in InCriticalSection : parse.lock = t
        /\ ~parse.stray
        /\ \A t \in Threads :
              LET th == parse.th[t]
              IN  /\ th.pc \in {"lock", "loop", "unlock"} => th.unlocks = 0
                  /\ th.pc = "returned" /\ th.held =>
                        th.unlocks = 1 /\ parse.lock # t
                  /\ th.pc = "returned" /\ ~th.held =>
                        th.unlocks = 0 /\ th.error < 0 /\ th.inserted = 0

\* one parse has held the lock and returned an error after a failed
\* allocation or insertion, another has held it, inserted a rule and
\* returned 0
C16_Witness ==
    /\ parse.pc # "idle"
    /\ \E t \in Threads, u \in Threads :
          /\ parse.th[t].pc = "returned" /\ parse.th[t].held
          /\ parse.th[t].error < 0
          /\ parse.th[u].pc = "returned" /\ parse.th[u].held
          /\ parse.th[u].error = GIT_OK /\ parse.th[u].inserted > 0

\* C15: Last writer wins under concurrent add / set.  Once both concurrent
\* calls have returned successfully, the pattern file holds exactly the
\* complete content one of the two callers wrote (for add: the patterns it
\* read followed by its new ones): never a mixture of both, never content
\* neither wrote.
C15_LastWriterWins ==
    (writers.pc # "idle"
        /\ \A t \in Callers : writers.w[t].pc = "returned" /\ writers.w[t].err = GIT_OK)
        => \E t \in Callers : file = writers.w[t].content

====
